---- MODULE Spec2Model ----
(***************************************************************************)
(* A model of restic's in-memory backend (backend/mem/mem_backend.go):     *)
(* the blob map, the write buffers (tempMemEntry), the read path, the      *)
(* listing goroutine and the mutex.                                        *)
(*                                                                         *)
(* Strings (blob names) are sequences of character codes, so that          *)
(* sort.Strings is computed and not assumed.  A []byte stored in the map   *)
(* is a slice of the backing array of the bytes.Buffer it was finalized    *)
(* from: it is modelled as a view [blob, len] onto that buffer.            *)
(***************************************************************************)
EXTENDS Integers, Sequences, FiniteSets, TLC

VARIABLES data,     \* MemoryBackend.data: entry -> view of the stored []byte
          blobs,    \* the tempMemEntry values created so far: their data buffers
          ret,      \* what the last completed operation returned
          streams,  \* the listings: channel, goroutine and consumer of each
          mu,       \* MemoryBackend.m: the set of callers inside Lock()..Unlock()
          pc,       \* position of each concurrent caller
          call,     \* arguments a caller evaluated before taking the lock
          raced     \* a caller touched the map while another one was inside

vars == <<data, blobs, ret, streams, mu, pc, call, raced>>

----------------------------------------------------------------------------
(* Bounds and input sets *)

MaxLen == 1         \* longest content of a write buffer
MaxBlobs == 2       \* write buffers created
MaxEntries == 2     \* blobs the callers keep in the store at a time
MaxStreams == 1     \* listings requested
NumCallers == 2     \* concurrent callers
MaxRead == 3        \* longest blob of the read path

Config == "config"
Data == "data"
Types == {Config, Data}
BadType == ""
Names == {<<>>, <<1>>, <<2>>}
Contended == {<<1>>}    \* the names concurrent callers compete for
\* What the callers write: the next byte of buffer b names the buffer and
\* the position, so that bytes of different buffers or places never agree.
Chunk(b, pos) == <<(16 * b + pos) % 256>>
Offsets == 0 .. (MaxLen + 1)

Nil == "nil"
ErrPresent == "already present"
ErrNoData == "no such data"
ErrOffset == "offset beyond end of file"
ErrUnexpectedEOF == "unexpected EOF"
ErrInvalid == "invalid handle"

Min(a, b) == IF a < b THEN a ELSE b

----------------------------------------------------------------------------
(* The map and the slices stored in it *)

entry(t, name) == [Type |-> t, Name |-> name]

\* a stored slice that follows its buffer as the buffer grows
BytesLive(v) == blobs[v.blob]

\* The bytes a stored slice denotes: the first len bytes of the array of the
\* buffer it was cut from.
Bytes(v) == SubSeq(blobs[v.blob], 1, v.len)

NoRet == [op |-> "none", err |-> Nil, ok |-> FALSE, n |-> 0, bytes |-> <<>>]

Ret(op, err, ok, n, bytes) ==
    [op |-> op, err |-> err, ok |-> ok, n |-> n, bytes |-> bytes]

\* backend.Handle.Valid
Valid(h) == h.Type \in Types

----------------------------------------------------------------------------
(* The operations, as functions of the map *)

\* insert without the check for a present key
insertOverwrite(d, t, name, v) ==
    [data |-> (entry(t, name) :> v) @@ d, err |-> Nil]

\* insert reporting success on a taken key
insertSilent(d, t, name, v) ==
    IF entry(t, name) \in DOMAIN d
    THEN [data |-> d, err |-> Nil]
    ELSE [data |-> (entry(t, name) :> v) @@ d, err |-> Nil]

\* insert assigning before it looks the key up
insertAssignsFirst(d, t, name, v) ==
    [data |-> (entry(t, name) :> v) @@ d,
     err |-> IF entry(t, name) \in DOMAIN d THEN ErrPresent ELSE Nil]

\* MemoryBackend.insert
insert(d, t, name, v) ==
    IF entry(t, name) \in DOMAIN d
    THEN [data |-> d, err |-> ErrPresent]
    ELSE [data |-> (entry(t, name) :> v) @@ d, err |-> Nil]

\* memTest
memTest(d, t, name) == entry(t, name) \in DOMAIN d

\* Finalize without the Config rewrite
FinalizeNameKept(t, name) == name

\* tempMemEntry.Finalize: the name the blob is stored under
FinalizeName(t, name) == IF t = Config THEN <<>> ELSE name

\* memGetReader refusing an offset at the end of the blob
memGetReaderStrict(d, t, name, offset, length) ==
    LET nm == IF t = Config THEN <<>> ELSE name
        k == entry(t, nm)
    IN  IF k \notin DOMAIN d
        THEN [err |-> ErrNoData, bytes |-> <<>>]
        ELSE LET buf == Bytes(d[k])
             IN  IF offset >= Len(buf)
                 THEN [err |-> ErrOffset, bytes |-> <<>>]
                 ELSE LET rest == SubSeq(buf, offset + 1, Len(buf))
                          l == IF length > Len(rest) THEN Len(rest) ELSE length
                      IN  [err |-> Nil,
                           bytes |-> IF length > 0 THEN SubSeq(rest, 1, l) ELSE rest]

\* memGetReader
memGetReader(d, t, name, offset, length) ==
    LET nm == IF t = Config THEN <<>> ELSE name
        k == entry(t, nm)
    IN  IF k \notin DOMAIN d
        THEN [err |-> ErrNoData, bytes |-> <<>>]
        ELSE LET buf == Bytes(d[k])
             IN  IF offset > Len(buf)
                 THEN [err |-> ErrOffset, bytes |-> <<>>]
                 ELSE LET rest == SubSeq(buf, offset + 1, Len(buf))
                          l == IF length > Len(rest) THEN Len(rest) ELSE length
                      IN  [err |-> Nil,
                           bytes |-> IF length > 0 THEN SubSeq(rest, 1, l) ELSE rest]

\* memLoad returning no count with io.ErrUnexpectedEOF
memLoadDropsCount(d, h, plen, off) ==
    IF ~Valid(h)
    THEN [n |-> 0, err |-> ErrInvalid, bytes |-> <<>>]
    ELSE LET nm == IF h.Type = Config THEN <<>> ELSE h.Name
             k == entry(h.Type, nm)
         IN  IF k \notin DOMAIN d
             THEN [n |-> 0, err |-> ErrNoData, bytes |-> <<>>]
             ELSE LET buf == Bytes(d[k])
                  IN  IF off > Len(buf)
                      THEN [n |-> 0, err |-> ErrOffset, bytes |-> <<>>]
                      ELSE LET rest == SubSeq(buf, off + 1, Len(buf))
                               n == Min(plen, Len(rest))
                           IN  IF plen > Len(rest)
                               THEN [n |-> 0, err |-> ErrUnexpectedEOF, bytes |-> <<>>]
                               ELSE [n |-> n, err |-> Nil, bytes |-> SubSeq(rest, 1, n)]

\* memLoad refusing an offset at the end of the blob
memLoadStrict(d, h, plen, off) ==
    IF ~Valid(h)
    THEN [n |-> 0, err |-> ErrInvalid, bytes |-> <<>>]
    ELSE LET nm == IF h.Type = Config THEN <<>> ELSE h.Name
             k == entry(h.Type, nm)
         IN  IF k \notin DOMAIN d
             THEN [n |-> 0, err |-> ErrNoData, bytes |-> <<>>]
             ELSE LET buf == Bytes(d[k])
                  IN  IF off >= Len(buf)
                      THEN [n |-> 0, err |-> ErrOffset, bytes |-> <<>>]
                      ELSE LET rest == SubSeq(buf, off + 1, Len(buf))
                               n == Min(plen, Len(rest))
                           IN  [n |-> n,
                                err |-> IF plen > Len(rest) THEN ErrUnexpectedEOF ELSE Nil,
                                bytes |-> SubSeq(rest, 1, n)]

\* memLoad: plen is len(p)
memLoad(d, h, plen, off) ==
    IF ~Valid(h)
    THEN [n |-> 0, err |-> ErrInvalid, bytes |-> <<>>]
    ELSE LET nm == IF h.Type = Config THEN <<>> ELSE h.Name
             k == entry(h.Type, nm)
         IN  IF k \notin DOMAIN d
             THEN [n |-> 0, err |-> ErrNoData, bytes |-> <<>>]
             ELSE LET buf == Bytes(d[k])
                  IN  IF off > Len(buf)
                      THEN [n |-> 0, err |-> ErrOffset, bytes |-> <<>>]
                      ELSE LET rest == SubSeq(buf, off + 1, Len(buf))
                               n == Min(plen, Len(rest))
                           IN  [n |-> n,
                                err |-> IF plen > Len(rest) THEN ErrUnexpectedEOF ELSE Nil,
                                bytes |-> SubSeq(rest, 1, n)]

\* memStat
memStat(d, h) ==
    IF ~Valid(h)
    THEN [size |-> 0, err |-> ErrInvalid]
    ELSE LET nm == IF h.Type = Config THEN <<>> ELSE h.Name
             k == entry(h.Type, nm)
         IN  IF k \notin DOMAIN d
             THEN [size |-> 0, err |-> ErrNoData]
             ELSE [size |-> d[k].len, err |-> Nil]

\* memRemove
memRemove(d, t, name) ==
    IF entry(t, name) \notin DOMAIN d
    THEN [data |-> d, err |-> ErrNoData]
    ELSE [data |-> [k \in DOMAIN d \ {entry(t, name)} |-> d[k]], err |-> Nil]

\* DeleteFn: a fresh, empty map
EmptyMap == [k \in {} |-> 0]

----------------------------------------------------------------------------
(* Listing: the snapshot and its order *)

\* Go's < on strings: bytewise lexicographic
StringLess(a, b) ==
    \E i \in 1 .. (Len(b)) :
        /\ \A j \in 1 .. (i - 1) : j <= Len(a) /\ a[j] = b[j]
        /\ (i > Len(a) \/ (i <= Len(a) /\ a[i] < b[i]))

\* sort.Strings, as an insertion sort
RECURSIVE InsertString(_, _)
InsertString(sorted, x) ==
    IF sorted = <<>> THEN <<x>>
    ELSE IF StringLess(x, Head(sorted)) THEN <<x>> \o sorted
    ELSE <<Head(sorted)>> \o InsertString(Tail(sorted), x)

RECURSIVE SortFrom(_, _)
SortFrom(sorted, rest) ==
    IF rest = <<>> THEN sorted
    ELSE SortFrom(InsertString(sorted, Head(rest)), Tail(rest))

\* ids left in the order of the map iteration
SortStringsSkipped(ids) == ids

SortStrings(ids) == SortFrom(<<>>, ids)

\* "for entry := range be.data": the entries in some order, each once
RangeOrders(d) ==
    LET n == Cardinality(DOMAIN d)
    IN  {o \in [1 .. n -> DOMAIN d] : \A i, j \in 1 .. n : o[i] = o[j] => i = j}

\* the loop of memList over one iteration order: the names of type t
RECURSIVE CollectIds(_, _)
CollectIds(order, t) ==
    IF order = <<>> THEN <<>>
    ELSE IF Head(order).Type # t THEN CollectIds(Tail(order), t)
    ELSE <<Head(order).Name>> \o CollectIds(Tail(order), t)

\* memList: ids, as the goroutine gets them
memListIds(order, t) == SortStrings(CollectIds(order, t))

----------------------------------------------------------------------------
(* The mutex *)

\* sync.Mutex.Lock: blocks until nobody is inside
Lock(self) == mu = {} /\ mu' = mu \cup {self}

\* sync.Mutex.Unlock (deferred: runs when the function returns)
Unlock(self) == mu' = mu \ {self}

\* A whole locked function called with nobody else running:
\* Lock, the body, the deferred Unlock.
Locked == mu = {} /\ UNCHANGED mu

----------------------------------------------------------------------------
(* The operations of the store, one caller at a time: each is the whole    *)
(* function, from Lock to the deferred Unlock.                             *)

Threads == <<pc, call, raced>>

\* The callers keep at most MaxEntries blobs in the store: a Finalize is
\* attempted when there is room, or when its key is taken (it fails then).
HasRoom(t, name) ==
    IF entry(t, IF t = Config THEN <<>> ELSE name) \in DOMAIN data
    THEN TRUE
    ELSE Cardinality(DOMAIN data) < MaxEntries

\* memCreate
Create ==
    /\ Len(blobs) < MaxBlobs
    /\ blobs' = Append(blobs, <<>>)
    /\ ret' = Ret("Create", Nil, FALSE, Len(blobs) + 1, <<>>)
    /\ UNCHANGED <<data, mu, streams, Threads>>

\* a Write that stores into the map at once
WriteThrough(b, p) ==
    /\ b \in DOMAIN blobs
    /\ Len(blobs[b]) + Len(p) <= MaxLen
    /\ blobs' = [blobs EXCEPT ![b] = @ \o p]
    /\ data' = (entry(Data, <<1>>) :> [blob |-> b, len |-> Len(blobs[b]) + Len(p)]) @@ data
    /\ ret' = Ret("Write", Nil, FALSE, Len(p), <<>>)
    /\ UNCHANGED <<mu, streams, Threads>>

\* tempMemEntry.Write
Write(b, p) ==
    /\ b \in DOMAIN blobs
    /\ Len(blobs[b]) + Len(p) <= MaxLen
    /\ blobs' = [blobs EXCEPT ![b] = @ \o p]
    /\ ret' = Ret("Write", Nil, FALSE, Len(p), <<>>)
    /\ UNCHANGED <<data, mu, streams, Threads>>

\* tempMemEntry.Finalize
Finalize(b, t, name) ==
    /\ b \in DOMAIN blobs
    /\ Locked
    /\ LET r == insert(data, t, FinalizeName(t, name),
                       [blob |-> b, len |-> Len(blobs[b])])
       IN  /\ data' = r.data
           /\ ret' = Ret("Finalize", r.err, FALSE, 0, <<>>)
    /\ UNCHANGED <<blobs, streams, Threads>>

\* TestFn -> memTest
Test(t, name) ==
    /\ Locked
    /\ ret' = Ret("Test", Nil, memTest(data, t, name), 0, <<>>)
    /\ UNCHANGED <<data, blobs, streams, Threads>>

\* GetReaderFn -> memGetReader, and the bytes the reader yields
GetReader(t, name, offset, length) ==
    /\ Locked
    /\ LET r == memGetReader(data, t, name, offset, length)
       IN  ret' = Ret("GetReader", r.err, FALSE, Len(r.bytes), r.bytes)
    /\ UNCHANGED <<data, blobs, streams, Threads>>

\* LoadFn -> memLoad
Load(h, plen, off) ==
    /\ Locked
    /\ LET r == memLoad(data, h, plen, off)
       IN  ret' = Ret("Load", r.err, FALSE, r.n, r.bytes)
    /\ UNCHANGED <<data, blobs, streams, Threads>>

\* StatFn -> memStat
Stat(h) ==
    /\ Locked
    /\ LET r == memStat(data, h)
       IN  ret' = Ret("Stat", r.err, FALSE, r.size, <<>>)
    /\ UNCHANGED <<data, blobs, streams, Threads>>

\* RemoveFn -> memRemove
Remove(t, name) ==
    /\ Locked
    /\ LET r == memRemove(data, t, name)
       IN  /\ data' = r.data
           /\ ret' = Ret("Remove", r.err, FALSE, 0, <<>>)
    /\ UNCHANGED <<blobs, streams, Threads>>

\* a DeleteFn that spares the Config blob
DeleteAllButConfig ==
    /\ Locked
    /\ data' = [k \in {e \in DOMAIN data : e.Type = Config} |-> data[k]]
    /\ ret' = Ret("Delete", Nil, FALSE, 0, <<>>)
    /\ UNCHANGED <<blobs, streams, Threads>>

\* DeleteFn
DeleteAll ==
    /\ Locked
    /\ data' = EmptyMap
    /\ ret' = Ret("Delete", Nil, FALSE, 0, <<>>)
    /\ UNCHANGED <<blobs, streams, Threads>>

\* A listing: the channel, the goroutine's ids and loop index, the done
\* signal, whether the consumer receives, and what it has received.
\* snap records the names of the type in the map when memList ran.
NewStream(t, ids, recv) ==
    [t |-> t, ids |-> ids, next |-> 1, done |-> FALSE, closed |-> FALSE,
     recv |-> recv, got |-> <<>>,
     snap |-> {k.Name : k \in {e \in DOMAIN data : e.Type = t}}]

\* ListFn -> memList: the snapshot is taken under the lock and the goroutine
\* started; the caller gets the channel and receives from it.
List(t) ==
    /\ Len(streams) < MaxStreams
    /\ Locked
    /\ \E order \in RangeOrders(data) :
          streams' = Append(streams, NewStream(t, memListIds(order, t), TRUE))
    /\ ret' = Ret("List", Nil, FALSE, Len(streams) + 1, <<>>)
    /\ UNCHANGED <<data, blobs, Threads>>

\* a goroutine that reads the names from the map as it goes
SendLive(s) ==
    /\ ~streams[s].closed
    /\ streams[s].next <= Len(streams[s].ids)
    /\ streams[s].recv
    /\ \E order \in RangeOrders(data) :
          LET ids == memListIds(order, streams[s].t)
          IN  /\ streams[s].next <= Len(ids)
              /\ streams' = [streams EXCEPT ![s].got = Append(@, ids[streams[s].next]),
                                            ![s].next = @ + 1]
    /\ UNCHANGED <<data, blobs, ret, mu, Threads>>

\* the goroutine of memList: "case ch <- id", taken with a receiving consumer
Send(s) ==
    /\ ~streams[s].closed
    /\ streams[s].next <= Len(streams[s].ids)
    /\ streams[s].recv
    /\ streams' = [streams EXCEPT ![s].got = Append(@, streams[s].ids[streams[s].next]),
                                  ![s].next = @ + 1]
    /\ UNCHANGED <<data, blobs, ret, mu, Threads>>

\* a goroutine whose select has no done case
CancelledIgnored(s) == FALSE /\ UNCHANGED vars

\* the goroutine of memList: "case <-done: return", then the deferred close(ch)
Cancelled(s) ==
    /\ ~streams[s].closed
    /\ streams[s].next <= Len(streams[s].ids)
    /\ streams[s].done
    /\ streams' = [streams EXCEPT ![s].closed = TRUE]
    /\ UNCHANGED <<data, blobs, ret, mu, Threads>>

\* the goroutine of memList: the loop is over, the deferred close(ch)
Close(s) ==
    /\ ~streams[s].closed
    /\ streams[s].next > Len(streams[s].ids)
    /\ streams' = [streams EXCEPT ![s].closed = TRUE]
    /\ UNCHANGED <<data, blobs, ret, mu, Threads>>

\* the consumer raises the cancellation signal: close(done)
Cancel(s) ==
    /\ ~streams[s].done
    /\ streams' = [streams EXCEPT ![s].done = TRUE]
    /\ UNCHANGED <<data, blobs, ret, mu, Threads>>

\* the consumer stops receiving from the open channel, for good
Abandon(s) ==
    /\ streams[s].recv
    /\ ~streams[s].closed
    /\ streams' = [streams EXCEPT ![s].recv = FALSE]
    /\ UNCHANGED <<data, blobs, ret, mu, Threads>>

Handles == [Type : Types, Name : Names] \cup {[Type |-> BadType, Name |-> <<1>>]}

Init ==
    /\ data = EmptyMap
    /\ blobs = <<>>
    /\ ret = NoRet
    /\ streams = <<>>
    /\ mu = {}
    /\ pc = <<>>
    /\ call = <<>>
    /\ raced = FALSE

\* The store and its callers, one call at a time.
Next ==
    \/ Create
    \/ \E b \in DOMAIN blobs : Write(b, Chunk(b, Len(blobs[b])))
    \/ \E b \in DOMAIN blobs, t \in Types, name \in Names :
          HasRoom(t, name) /\ Finalize(b, t, name)
    \/ \E t \in Types, name \in Names : Test(t, name)
    \/ \E t \in Types, name \in Names, offset \in Offsets, length \in Offsets :
          GetReader(t, name, offset, length)
    \/ \E h \in Handles, plen \in Offsets, off \in Offsets : Load(h, plen, off)
    \/ \E h \in Handles : Stat(h)
    \/ \E t \in Types, name \in Names : Remove(t, name)
    \/ DeleteAll

Spec == Init /\ [][Next]_vars

\* The store with listings: callers that insert and remove, one call at a
\* time, while the goroutines and the consumers of the listings run.
ListNext ==
    \/ Create
    \/ \E b \in DOMAIN blobs, t \in Types, name \in Names : Finalize(b, t, name)
    \/ \E t \in Types, name \in Names : Remove(t, name)
    \/ DeleteAll
    \/ \E t \in Types : List(t)
    \/ \E s \in DOMAIN streams : Send(s)
    \/ \E s \in DOMAIN streams : Cancelled(s)
    \/ \E s \in DOMAIN streams : Close(s)
    \/ \E s \in DOMAIN streams : Cancel(s)
    \/ \E s \in DOMAIN streams : Abandon(s)

ListSpec == Init /\ [][ListNext]_vars

\* The goroutine of a listing is scheduled fairly; callers and consumers
\* owe nothing.
ListFairness ==
    \A s \in 1 .. MaxStreams :
        /\ WF_vars(s \in DOMAIN streams /\ Cancelled(s))
        /\ WF_vars(s \in DOMAIN streams /\ Close(s))

FairListSpec == ListSpec /\ ListFairness

\* The read path over longer blobs: a store in which one buffer was
\* written, finalized under some key at some length and perhaps written
\* further, or an empty store; the callers read at every offset and length.
ReadOffsets == 0 .. (MaxRead + 1)

Content(b, n) == [i \in 1 .. n |-> Chunk(b, i - 1)[1]]

ReadInit ==
    /\ \E n \in 0 .. MaxRead :
          /\ blobs = <<Content(1, n)>>
          /\ \/ data = EmptyMap
             \/ \E m \in 0 .. n, t \in Types, name \in Names :
                   data = insert(EmptyMap, t, FinalizeName(t, name),
                                 [blob |-> 1, len |-> m]).data
    /\ ret = NoRet
    /\ streams = <<>>
    /\ mu = {}
    /\ pc = <<>>
    /\ call = <<>>
    /\ raced = FALSE

ReadNext ==
    \/ \E t \in Types, name \in Names : Test(t, name)
    \/ \E t \in Types, name \in Names, offset \in ReadOffsets, length \in ReadOffsets :
          GetReader(t, name, offset, length)
    \/ \E h \in Handles, plen \in ReadOffsets, off \in ReadOffsets : Load(h, plen, off)
    \/ \E h \in Handles : Stat(h)

ReadSpec == ReadInit /\ [][ReadNext]_vars

----------------------------------------------------------------------------
(* Concurrent callers: each function is entered by taking the lock, runs   *)
(* its body inside and leaves by the deferred Unlock.  A caller is         *)
(*   "idle"       outside every function,                                  *)
(*   "locked"     past Lock() in one of memTest, memGetReader, memLoad,    *)
(*                memStat, memRemove, memList or DeleteFn,                 *)
(*   "listed"     in memList, past "go func()", before it returns,         *)
(*   "insert"     in Finalize, about to call insert with its arguments,    *)
(*   "inserting"  in insert, past Lock().                                  *)
(* ret keeps the function that returned last and its error.                *)

Callers == 1 .. NumCallers

NoCall == [t |-> BadType, name |-> <<>>, v |-> [blob |-> 0, len |-> 0], s |-> 0]

\* a caller runs code that reads or writes be.data: racing unless it is
\* the one caller inside the lock
Touch(self) == raced' = (raced \/ mu # {self})

\* the deferred Unlock of a function that returns err
Leave(self, op, err) ==
    /\ Unlock(self)
    /\ pc' = [pc EXCEPT ![self] = "idle"]
    /\ call' = [call EXCEPT ![self] = NoCall]
    /\ ret' = Ret(op, err, FALSE, 0, <<>>)

\* be.m.Lock() as the first statement of a function
Enter(self) ==
    /\ pc[self] = "idle"
    /\ Lock(self)
    /\ pc' = [pc EXCEPT ![self] = "locked"]
    /\ UNCHANGED <<data, blobs, ret, streams, call, raced>>

\* memTest, after Lock
CTest(self, t, name) ==
    /\ pc[self] = "locked"
    /\ Touch(self)
    /\ Leave(self, "Test", Nil)
    /\ UNCHANGED <<data, blobs, streams>>

\* memGetReader, after Lock
CGetReader(self, t, name, offset, length) ==
    /\ pc[self] = "locked"
    /\ Touch(self)
    /\ Leave(self, "GetReader", memGetReader(data, t, name, offset, length).err)
    /\ UNCHANGED <<data, blobs, streams>>

\* memLoad, after Lock
CLoad(self, h, plen, off) ==
    /\ pc[self] = "locked"
    /\ Touch(self)
    /\ Leave(self, "Load", memLoad(data, h, plen, off).err)
    /\ UNCHANGED <<data, blobs, streams>>

\* memStat, after Lock
CStat(self, h) ==
    /\ pc[self] = "locked"
    /\ Touch(self)
    /\ Leave(self, "Stat", memStat(data, h).err)
    /\ UNCHANGED <<data, blobs, streams>>

\* memRemove, after Lock
CRemove(self, t, name) ==
    /\ pc[self] = "locked"
    /\ Touch(self)
    /\ data' = memRemove(data, t, name).data
    /\ Leave(self, "Remove", memRemove(data, t, name).err)
    /\ UNCHANGED <<blobs, streams>>

\* DeleteFn, after Lock
CDeleteAll(self) ==
    /\ pc[self] = "locked"
    /\ Touch(self)
    /\ data' = EmptyMap
    /\ Leave(self, "Delete", Nil)
    /\ UNCHANGED <<blobs, streams>>

\* memList, after Lock: the snapshot, the sort and "go func()".  The
\* goroutine runs from here on; the caller has no channel to receive from
\* until memList returns.
CList(self, t) ==
    /\ pc[self] = "locked"
    /\ Len(streams) < MaxStreams
    /\ Touch(self)
    /\ \E order \in RangeOrders(data) :
          streams' = Append(streams, NewStream(t, memListIds(order, t), FALSE))
    /\ pc' = [pc EXCEPT ![self] = "listed"]
    /\ call' = [call EXCEPT ![self] = [NoCall EXCEPT !.s = Len(streams) + 1]]
    /\ UNCHANGED <<data, blobs, ret, mu>>

\* a memList that keeps the lock until its goroutine has finished
CListReturnAtClose(self) ==
    /\ pc[self] = "listed"
    /\ streams[call[self].s].closed
    /\ streams' = [streams EXCEPT ![call[self].s].recv = TRUE]
    /\ Leave(self, "List", Nil)
    /\ UNCHANGED <<data, blobs, raced>>

\* memList: "return ch" and the deferred Unlock; the consumer receives
CListReturn(self) ==
    /\ pc[self] = "listed"
    /\ streams' = [streams EXCEPT ![call[self].s].recv = TRUE]
    /\ Leave(self, "List", Nil)
    /\ UNCHANGED <<data, blobs, raced>>

\* tempMemEntry.Finalize up to the call of insert: the rewrite of the name
\* and e.data.Bytes()
CFinalize(self, b, t, name) ==
    /\ pc[self] = "idle"
    /\ b \in DOMAIN blobs
    /\ pc' = [pc EXCEPT ![self] = "insert"]
    /\ call' = [call EXCEPT ![self] =
                   [NoCall EXCEPT !.t = t, !.name = FinalizeName(t, name),
                                  !.v = [blob |-> b, len |-> Len(blobs[b])]]]
    /\ UNCHANGED <<data, blobs, ret, streams, mu, raced>>

\* insert without be.m.Lock()
CInsertEnterUnlocked(self) ==
    /\ pc[self] = "insert"
    /\ pc' = [pc EXCEPT ![self] = "inserting"]
    /\ UNCHANGED <<data, blobs, ret, streams, mu, call, raced>>

\* insert: be.m.Lock()
CInsertEnter(self) ==
    /\ pc[self] = "insert"
    /\ Lock(self)
    /\ pc' = [pc EXCEPT ![self] = "inserting"]
    /\ UNCHANGED <<data, blobs, ret, streams, call, raced>>

\* insert, after Lock
CInsert(self) ==
    /\ pc[self] = "inserting"
    /\ Touch(self)
    /\ LET r == insert(data, call[self].t, call[self].name, call[self].v)
       IN  /\ data' = r.data
           /\ Leave(self, "Finalize", r.err)
    /\ UNCHANGED <<blobs, streams>>

\* Every caller has created a write buffer and written to it.
ConcInit ==
    /\ data = EmptyMap
    /\ blobs = [b \in 1 .. MaxBlobs |-> Chunk(b, 0)]
    /\ ret = NoRet
    /\ streams = <<>>
    /\ mu = {}
    /\ pc = [c \in Callers |-> "idle"]
    /\ call = [c \in Callers |-> NoCall]
    /\ raced = FALSE

ConcNext ==
    \/ \E self \in Callers : Enter(self)
    \/ \E self \in Callers, t \in Types, name \in Contended : CTest(self, t, name)
    \/ \E self \in Callers, t \in Types, name \in Contended, offset \in Offsets :
          CGetReader(self, t, name, offset, 0)
    \/ \E self \in Callers, t \in Types, name \in Contended, off \in Offsets :
          CLoad(self, entry(t, name), 1, off)
    \/ \E self \in Callers, h \in Handles : CStat(self, h)
    \/ \E self \in Callers, t \in Types, name \in Contended : CRemove(self, t, name)
    \/ \E self \in Callers : CDeleteAll(self)
    \/ \E self \in Callers, t \in Types : CList(self, t)
    \/ \E self \in Callers : CListReturn(self)
    \/ \E self \in Callers, b \in DOMAIN blobs, t \in Types, name \in Contended :
          CFinalize(self, b, t, name)
    \/ \E self \in Callers : CInsertEnter(self)
    \/ \E self \in Callers : CInsert(self)
    \/ \E s \in DOMAIN streams : Send(s)
    \/ \E s \in DOMAIN streams : Cancelled(s)
    \/ \E s \in DOMAIN streams : Close(s)
    \/ \E s \in DOMAIN streams : Cancel(s)

ConcSpec == ConcInit /\ [][ConcNext]_vars

----------------------------------------------------------------------------
(* Properties *)

Range(f) == {f[i] : i \in DOMAIN f}

\* the key an operation on (t, name) is meant to address
Slot(t, name) == [Type |-> t, Name |-> IF t = Config THEN <<>> ELSE name]

\* what the map holds: each key with the bytes stored under it
Stored == [k \in DOMAIN data |-> Bytes(data[k])]

\* lexicographic order of names, by the first place where they differ
RECURSIVE LexBefore(_, _)
LexBefore(a, b) ==
    IF b = <<>> THEN FALSE
    ELSE IF a = <<>> THEN TRUE
    ELSE IF Head(a) # Head(b) THEN Head(a) < Head(b)
    ELSE LexBefore(Tail(a), Tail(b))

StrictlyAscending(q) == \A i \in 1 .. (Len(q) - 1) : LexBefore(q[i], q[i + 1])

\* C1: after a buffer is finalized successfully under (category, name), for
\* every category (Config too) and every name, Exists(category, name) is
\* true, Stat(category, name) is the length of the buffer's bytes and
\* Read(category, name, 0, 0) yields exactly those bytes.
C1_InsertThenRead ==
    [][\A b \in DOMAIN blobs, t \in Types, name \in Names :
          (Finalize(b, t, name) /\ ret'.err = Nil) =>
              /\ memTest(data, t, name)'
              /\ memStat(data, entry(t, name))' = [size |-> Len(blobs[b]), err |-> Nil]
              /\ memGetReader(data, t, name, 0, 0)' = [err |-> Nil, bytes |-> blobs[b]]]_vars

\* C2: a Finalize that targets a key already in the map returns "already
\* present" and leaves the map, and the bytes under every key, as they were.
C2_NoOverwrite ==
    [][\A b \in DOMAIN blobs, t \in Types, name \in Names :
          (Finalize(b, t, name) /\ Slot(t, name) \in DOMAIN data) =>
              /\ ret'.op = "Finalize" /\ ret'.err = ErrPresent
              /\ data' = data
              /\ Stored' = Stored]_vars

\* a Finalize has just been refused on a taken key whose bytes differ from
\* the refused buffer's
C2_Witness ==
    /\ ret.op = "Finalize" /\ ret.err = ErrPresent
    /\ \E k \in DOMAIN data, b \in DOMAIN blobs : Stored[k] # blobs[b] /\ Stored[k] # <<>>

\* C3: the Config rewrite is applied by every operation: once a Config blob
\* is published, for every name n Exists(Config, n) is true and
\* Remove(Config, n) succeeds and empties the slot.
C3_ConfigRewriteEverywhere ==
    \A n \in Names :
        Slot(Config, n) \in DOMAIN data =>
            /\ memTest(data, Config, n)
            /\ memRemove(data, Config, n).err = Nil
            /\ Slot(Config, n) \notin DOMAIN memRemove(data, Config, n).data

\* C4: the map holds at most one Config key, named by the empty string, and
\* while it is held every Finalize(Config, n) returns "already present" and
\* changes nothing.
C4_ConfigSingleton ==
    /\ [](\A k \in DOMAIN data : k.Type = Config => k.Name = <<>>)
    /\ [][\A b \in DOMAIN blobs, n \in Names :
            (Finalize(b, Config, n) /\ \E k \in DOMAIN data : k.Type = Config) =>
                ret'.err = ErrPresent /\ data' = data]_vars

\* a Finalize was refused while the Config blob was the only blob
C4_Witness ==
    /\ ret.op = "Finalize" /\ ret.err = ErrPresent
    /\ DOMAIN data = {entry(Config, <<>>)}

\* C5: a listing delivers names of its snapshot only, each once, in strictly
\* ascending order, and when it closes without a cancellation it has
\* delivered every name the type had when List was called.
C5_ListSorted ==
    \A s \in DOMAIN streams :
        /\ StrictlyAscending(streams[s].got)
        /\ Range(streams[s].got) \subseteq streams[s].snap
        /\ (streams[s].closed /\ ~streams[s].done) =>
               Range(streams[s].got) = streams[s].snap

\* a listing of three names was read to its end
C5_Witness ==
    \E s \in DOMAIN streams :
        streams[s].closed /\ ~streams[s].done /\ Len(streams[s].got) = 3

\* the names of S in ascending order
RECURSIVE Ascending(_)
Ascending(S) ==
    IF S = {} THEN <<>>
    ELSE LET m == CHOOSE x \in S : \A y \in S \ {x} : LexBefore(x, y)
         IN  <<m>> \o Ascending(S \ {m})

\* C6: what a listing delivers is fixed when List is called: at any moment
\* it has delivered a prefix of the ascending names of its snapshot,
\* whatever was inserted or removed since, and all of them once it closes
\* without a cancellation.
C6_ListSnapshot ==
    \A s \in DOMAIN streams :
        /\ streams[s].got = SubSeq(Ascending(streams[s].snap), 1, Len(streams[s].got))
        /\ (streams[s].closed /\ ~streams[s].done) =>
               streams[s].got = Ascending(streams[s].snap)

\* a listing was read to its end after one of its names was removed from
\* the map and another name of the type inserted
C6_Witness ==
    \E s \in DOMAIN streams :
        /\ streams[s].closed /\ ~streams[s].done
        /\ \E n \in Range(streams[s].got) : entry(streams[s].t, n) \notin DOMAIN data
        /\ \E k \in DOMAIN data : k.Type = streams[s].t /\ k.Name \notin Range(streams[s].got)

\* C7: when the consumer has raised the cancellation signal and receives no
\* more, the goroutine of the listing terminates and the channel is closed.
C7_CancelTerminates ==
    \A s \in 1 .. MaxStreams :
        (s \in DOMAIN streams /\ streams[s].done /\ ~streams[s].recv)
            ~> (s \in DOMAIN streams /\ streams[s].closed)

\* a listing closed on cancellation after one of several names
C7_Witness ==
    \E s \in DOMAIN streams :
        /\ streams[s].closed /\ streams[s].done /\ ~streams[s].recv
        /\ Len(streams[s].got) = 1 /\ Len(streams[s].ids) = 3

\* what callers can observe of the store: the results of Exists, Stat,
\* GetReader and LoadInto for every argument, and the ids of a List
Observed ==
    [t \in Types |->
        <<[n \in Names |-> memTest(data, t, n)],
          [n \in Names |-> memStat(data, entry(t, n))],
          [n \in Names |-> [o \in Offsets |-> [l \in Offsets |->
              memGetReader(data, t, n, o, l)]]],
          [n \in Names |-> [o \in Offsets |-> [l \in Offsets |->
              memLoad(data, entry(t, n), l, o)]]],
          {memListIds(order, t) : order \in RangeOrders(data)}>>]

Unpublished(b) == \A k \in DOMAIN data : data[k].blob # b

\* C8: creating a buffer, or writing to a buffer that is not in the map,
\* changes neither the map nor any result of Exists, Stat, GetReader,
\* LoadInto or List; such a buffer enters the map by a Finalize step only.
C8_StagedInvisible ==
    [][/\ (Create \/ \E b \in DOMAIN blobs :
                        Unpublished(b) /\ Write(b, Chunk(b, Len(blobs[b]))))
            => (data' = data /\ Observed' = Observed)
       /\ \A b \in DOMAIN blobs :
             (Unpublished(b) /\ ~Unpublished(b)') =>
                 \E t \in Types, name \in Names : Finalize(b, t, name)]_vars

\* a buffer holding bytes has just been written to while it was not in the
\* map and another buffer was
C8_Witness ==
    /\ ret.op = "Write"
    /\ DOMAIN data # {}
    /\ \E b \in DOMAIN blobs : Unpublished(b) /\ Len(blobs[b]) = MaxLen

\* the callers inside Lock()..Unlock(), by their position
Inside == {c \in Callers : pc[c] \in {"locked", "listed", "inserting"}}

\* C9: at most one caller is inside the lock, the map is touched by the
\* caller inside only, and a key of the map holds the complete bytes of
\* the buffer it was finalized from.
C9_LockDiscipline ==
    /\ Cardinality(mu) <= 1
    /\ mu = Inside
    /\ ~raced
    /\ \A k \in DOMAIN data : Stored[k] = blobs[data[k].blob]

\* one caller is inside insert while the other waits to insert another
\* buffer under the same key
C9_Witness ==
    \E c, d \in Callers :
        /\ pc[c] = "inserting" /\ pc[d] = "insert"
        /\ call[c].t = call[d].t /\ call[c].name = call[d].name
        /\ call[c].v.blob # call[d].v.blob

\* the steps by which caller c returns from the function it is inside
Return(c) ==
    \/ \E t \in Types, name \in Contended : CTest(c, t, name)
    \/ \E t \in Types, name \in Contended : CRemove(c, t, name)
    \/ CDeleteAll(c)
    \/ CListReturn(c)
    \/ CInsert(c)

\* a listing whose goroutine waits for its consumer
Blocked(s) ==
    ~streams[s].closed /\ streams[s].next <= Len(streams[s].ids) /\ ~streams[s].done

\* C10: whoever holds the lock can return and release it whatever the
\* listings and their consumers do, nothing is delivered before memList
\* has returned, and with the lock free every caller can take it.
C10_ListNeverStalls ==
    /\ \A c \in mu : ENABLED Return(c)
    /\ \A c \in Callers : pc[c] = "listed" => streams[call[c].s].got = <<>>
    /\ mu = {} => \A c \in Callers : pc[c] = "idle" => ENABLED Enter(c)

\* a Remove has completed on a name of a listing whose goroutine is still
\* waiting for its consumer, and the next caller is inside the lock
C10_Witness ==
    \E s \in DOMAIN streams :
        /\ Blocked(s) /\ streams[s].recv
        /\ ret.op = "Remove" /\ ret.err = Nil
        /\ \E n \in streams[s].snap : entry(streams[s].t, n) \notin DOMAIN data
        /\ mu # {}

\* cnt elements of q after the first from
Slice(q, from, cnt) == [i \in 1 .. cnt |-> q[from + i]]

\* C11: GetReader on a present key of size S: an offset above S fails with
\* "offset beyond end of file"; otherwise there is no error and the reader
\* yields the bytes from offset to the end when length is 0 (none when
\* offset = S), and min(length, S - offset) bytes from offset otherwise.
C11_ReadRange ==
    [][\A t \in Types, name \in Names, offset \in ReadOffsets, length \in ReadOffsets :
          (/\ ret'.op = "GetReader"
           /\ Slot(t, name) \in DOMAIN data
           /\ GetReader(t, name, offset, length)) =>
              LET stored == Stored[Slot(t, name)]
                  S == Len(stored)
              IN  IF offset > S
                  THEN ret'.err = ErrOffset
                  ELSE /\ ret'.err = Nil
                       /\ ret'.bytes = Slice(stored, offset,
                              IF length = 0 THEN S - offset
                              ELSE Min(length, S - offset))]_vars

\* a reader has yielded fewer bytes than remain after a non-zero offset
C11_Witness ==
    /\ ret.op = "GetReader" /\ ret.err = Nil /\ Len(ret.bytes) = 1
    /\ \E k \in DOMAIN data : Len(Stored[k]) = 3 /\ ret.bytes = <<Stored[k][2]>>

\* C12: LoadInto on a present key of size S with offset <= S and a
\* destination of capacity C copies min(C, S - offset) bytes, the stored
\* bytes from offset, returns that count, and signals "unexpected EOF"
\* exactly when C > S - offset.
C12_LoadInto ==
    [][\A t \in Types, name \in Names, C \in ReadOffsets, off \in ReadOffsets :
          (/\ ret'.op = "Load"
           /\ Slot(t, name) \in DOMAIN data
           /\ off <= Len(Stored[Slot(t, name)])
           /\ Load(entry(t, name), C, off)) =>
              LET stored == Stored[Slot(t, name)]
                  S == Len(stored)
              IN  /\ ret'.n = Min(C, S - off)
                  /\ ret'.bytes = Slice(stored, off, Min(C, S - off))
                  /\ ret'.err = (IF C > S - off THEN ErrUnexpectedEOF ELSE Nil)]_vars

\* a LoadInto has copied some bytes, not all it had room for
C12_Witness ==
    /\ ret.op = "Load" /\ ret.err = ErrUnexpectedEOF /\ ret.n = 2
    /\ \E k \in DOMAIN data : Len(Stored[k]) = 3 /\ ret.bytes = Slice(Stored[k], 1, 2)

\* C13 as claimed: every read at an offset equal to the stored length, with
\* LoadInto of any capacity among them, yields no bytes and no error.
C13_OffsetAtEndNoError ==
    [][/\ \A t \in Types, name \in Names, length \in ReadOffsets :
             (/\ ret'.op = "GetReader"
              /\ Slot(t, name) \in DOMAIN data
              /\ GetReader(t, name, Len(Stored[Slot(t, name)]), length)) =>
                 (ret'.err = Nil /\ ret'.bytes = <<>>)
       /\ \A t \in Types, name \in Names, C \in ReadOffsets :
             (/\ ret'.op = "Load"
              /\ Slot(t, name) \in DOMAIN data
              /\ Load(entry(t, name), C, Len(Stored[Slot(t, name)]))) =>
                 (ret'.err = Nil /\ ret'.n = 0)]_vars

\* C13: a read at an offset equal to the stored length is in range and
\* yields no bytes: GetReader reports no error, LoadInto reports no error
\* into a destination of capacity 0 and "unexpected EOF", with count 0,
\* into any larger one.
C13_OffsetAtEnd ==
    [][/\ \A t \in Types, name \in Names, length \in ReadOffsets :
             (/\ ret'.op = "GetReader"
              /\ Slot(t, name) \in DOMAIN data
              /\ GetReader(t, name, Len(Stored[Slot(t, name)]), length)) =>
                 (ret'.err = Nil /\ ret'.bytes = <<>>)
       /\ \A t \in Types, name \in Names, C \in ReadOffsets :
             (/\ ret'.op = "Load"
              /\ Slot(t, name) \in DOMAIN data
              /\ Load(entry(t, name), C, Len(Stored[Slot(t, name)]))) =>
                 /\ ret'.n = 0 /\ ret'.bytes = <<>>
                 /\ ret'.err = (IF C = 0 THEN Nil ELSE ErrUnexpectedEOF)]_vars

\* a LoadInto at the end of a blob of three bytes has signalled
\* "unexpected EOF" with count 0
C13_Witness ==
    /\ ret.op = "Load" /\ ret.err = ErrUnexpectedEOF /\ ret.n = 0
    /\ \E k \in DOMAIN data : Len(Stored[k]) = 3

\* C14: an operation that returns an error ("already present", "no such
\* data", "offset beyond end of file", "unexpected EOF", "invalid handle")
\* leaves the map as it was: the same keys with the same bytes.
C14_ErrorsChangeNothing ==
    [][ret'.err # Nil => (data' = data /\ Stored' = Stored)]_vars

\* a LoadInto has come up short on a stored blob of one byte
C14_Witness ==
    /\ ret.op = "Load" /\ ret.err = ErrUnexpectedEOF /\ ret.n = 1
    /\ \E k \in DOMAIN data : Stored[k] = ret.bytes

\* C15: Remove of a present key succeeds, after which the key is absent and
\* every other key holds the bytes it held; Remove of an absent key returns
\* "no such data" and changes nothing; for every type and name.
C15_Remove ==
    [][\A t \in Types, name \in Names :
          Remove(t, name) =>
              IF Slot(t, name) \in DOMAIN data
              THEN /\ ret'.err = Nil
                   /\ DOMAIN data' = DOMAIN data \ {Slot(t, name)}
                   /\ ~memTest(data', t, name)
                   /\ \A k \in DOMAIN data' : Stored'[k] = Stored[k]
              ELSE /\ ret'.err = ErrNoData
                   /\ data' = data
                   /\ Stored' = Stored]_vars

\* C16: DeleteAll can always be taken and succeeds; after it the map is
\* empty, Exists is false for every type and name, and a List requested
\* next, of either type, delivers no name and closes.
C16_DeleteAll ==
    /\ [](ENABLED DeleteAll)
    /\ [][DeleteAll =>
            /\ ret'.err = Nil
            /\ data' = EmptyMap
            /\ \A t \in Types, name \in Names : ~memTest(data', t, name)]_vars
    /\ [][\A t \in Types :
            (List(t) /\ ret.op = "Delete") => streams'[Len(streams')].ids = <<>>]_vars
    /\ [](\A s \in DOMAIN streams : streams[s].ids = <<>> => streams[s].got = <<>>)
    /\ \A s \in 1 .. MaxStreams :
          (s \in DOMAIN streams /\ streams[s].ids = <<>>)
              ~> (s \in DOMAIN streams /\ streams[s].closed /\ streams[s].got = <<>>)

\* DeleteAll has just emptied a map of which a listing had taken a
\* snapshot with names in it
C16_Witness ==
    /\ ret.op = "Delete" /\ data = EmptyMap
    /\ \E s \in DOMAIN streams : streams[s].snap # {}

\* C17: the bytes under a key never change while the key is in the map, not
\* by a further Write on the buffer they came from and not by a Finalize of
\* that buffer under another key; a key leaves the map by Remove or
\* DeleteAll only.
C17_PublishedImmutable ==
    [][\A k \in DOMAIN data :
          IF k \in DOMAIN data'
          THEN Stored'[k] = Stored[k]
          ELSE DeleteAll \/ \E t \in Types, name \in Names : Remove(t, name)]_vars

\* one buffer has been finalized under a key, written to, and finalized
\* again under another key: the two keys hold different bytes
C17_Witness ==
    /\ ret.op = "Finalize" /\ ret.err = Nil
    /\ \E k1, k2 \in DOMAIN data :
          /\ data[k1].blob = data[k2].blob
          /\ Len(Stored[k1]) < Len(Stored[k2])

\* C18: once the cancellation signal of a listing is raised, no further
\* name is delivered on its channel, whether or not the consumer receives;
\* all the consumer sees afterwards is the channel closing.
C18_NoDeliveryAfterCancel ==
    [][\A s \in DOMAIN streams :
          streams[s].done => streams'[s].got = streams[s].got]_vars

\* C19: of the callers finalizing buffers under one key at the same time,
\* one at a time runs insert; the insert that finds the key absent succeeds
\* and stores the bytes of its own buffer, every insert that finds the key
\* taken returns "already present" and leaves the winner's bytes in place.
C19_OneWinner ==
    /\ [](Cardinality({c \in Callers : pc[c] = "inserting"}) <= 1)
    /\ [][\A self \in Callers :
            CInsert(self) =>
                LET k == entry(call[self].t, call[self].name)
                IN  IF k \in DOMAIN data
                    THEN /\ ret'.err = ErrPresent
                         /\ data' = data
                         /\ Stored' = Stored
                    ELSE /\ ret'.err = Nil
                         /\ DOMAIN data' = DOMAIN data \cup {k}
                         /\ Stored'[k] = blobs[call[self].v.blob]
                         /\ \A j \in DOMAIN data : Stored'[j] = Stored[j]]_vars

\* a Finalize has just succeeded while another caller, finalizing another
\* buffer under the same key, waits to run insert
C19_Witness ==
    /\ ret.op = "Finalize" /\ ret.err = Nil
    /\ \E d \in Callers :
          /\ pc[d] = "insert"
          /\ entry(call[d].t, call[d].name) \in DOMAIN data
          /\ Stored[entry(call[d].t, call[d].name)] # blobs[call[d].v.blob]

====
